---------------------------- MODULE Spec2Model ----------------------------
(***************************************************************************)
(* Model of the document retrieval service of doc_api_endpoint:           *)
(*   src/endpoint.py               the single-file service (prefix /v1)   *)
(*   src/routes/user_document.py   the same service as an APIRouter       *)
(* Both files are modelled; the variable `variant` says which one runs.   *)
(*                                                                         *)
(* Python values are a tagged union, one record shape for all of them:    *)
(*   [tag |-> "str",  s |-> <<symbols>>, items |-> <<>>]                  *)
(*   [tag |-> "int" | "none", s |-> <<>>, items |-> <<>>]                 *)
(*   [tag |-> "list", s |-> <<>>, items |-> <<values>>]                   *)
(*   [tag |-> "dict", s |-> <<>>, items |-> <<[k |-> value, v |-> value]>>]*)
(* A string is a sequence of symbols over an alphabet whose symbol "\n"   *)
(* is the newline character; every other symbol is newline-free text.     *)
(* A dict keeps its entries in insertion order, as Python's dict does.    *)
(***************************************************************************)
EXTENDS Naturals, Sequences, FiniteSets, TLC

VARIABLES
    variant,          \* "endpoint" (endpoint.py) or "router" (routes/user_document.py)
    files,            \* document_names: the globbed files, each with its content
    task,             \* the state of each task submitted by executor.map
    result,           \* results: what load_document gave for each file
    nextResult,       \* the position of the for loop in results
    loaded_documents, \* loaded_documents: name -> content, in insertion order
    pc,               \* "loading" (module import), "serving" or "crashed"
    response          \* the response to the last request served

vars == <<variant, files, task, result, nextResult, loaded_documents, pc, response>>

----------------------------------------------------------------------------
(* Bounds of the model *)

\* documents of every key count 0..MaxKeys are among the inputs
MaxKeys == 11

\* strings of the inputs end with up to MaxNewlines newline characters
MaxNewlines == 2

\* the directories of the load specification hold up to MaxLoadFiles files
MaxLoadFiles == 7

----------------------------------------------------------------------------
(* Python values *)

NL == "\n"

Str(symbols) == [tag |-> "str", s |-> symbols, items |-> <<>>]

Int == [tag |-> "int", s |-> <<>>, items |-> <<>>]

None == [tag |-> "none", s |-> <<>>, items |-> <<>>]

List(elements) == [tag |-> "list", s |-> <<>>, items |-> elements]

Dict(entries) == [tag |-> "dict", s |-> <<>>, items |-> entries]

Entry(key, value) == [k |-> key, v |-> value]

Min(a, b) == IF a <= b THEN a ELSE b

\* entries[key] = value on a dict's entries: an existing key keeps its
\* position and takes the new value, a new key goes to the end
DictSet(entries, key, value) ==
    IF \E i \in 1..Len(entries) : entries[i].k = key
    THEN [i \in 1..Len(entries) |->
            IF entries[i].k = key THEN Entry(key, value) ELSE entries[i]]
    ELSE Append(entries, Entry(key, value))

\* key in entries
DictHas(entries, key) == \E i \in 1..Len(entries) : entries[i].k = key

\* entries[key], for a key that is present
DictGet(entries, key) ==
    entries[CHOOSE i \in 1..Len(entries) : entries[i].k = key].v

\* list(entries.keys())
DictKeys(entries) == [i \in 1..Len(entries) |-> entries[i].k]

\* str.rstrip("\n"): every trailing newline is removed
RECURSIVE rstrip(_)
rstrip(symbols) ==
    IF symbols # <<>> /\ symbols[Len(symbols)] = NL
    THEN rstrip(SubSeq(symbols, 1, Len(symbols) - 1))
    ELSE symbols

\* a buggy rstrip that removes one trailing newline only
rstrip_once(symbols) ==
    IF symbols # <<>> /\ symbols[Len(symbols)] = NL
    THEN SubSeq(symbols, 1, Len(symbols) - 1)
    ELSE symbols

\* the transformation applied to every string element
StringTransform(symbols) == rstrip(symbols)

\* transform_data: dicts and lists are rebuilt from their transformed
\* members (keys included), strings are stripped, the rest passes through
RECURSIVE transform_data(_)
RECURSIVE transform_entries(_, _)
transform_entries(entries, acc) ==
    IF entries = <<>> THEN acc
    ELSE transform_entries(Tail(entries),
            DictSet(acc, transform_data(Head(entries).k),
                         transform_data(Head(entries).v)))

transform_data(data) ==
    CASE data.tag = "dict" -> Dict(transform_entries(data.items, <<>>))
      [] data.tag = "list" ->
            List([i \in 1..Len(data.items) |-> transform_data(data.items[i])])
      [] data.tag = "str" -> Str(StringTransform(data.s))
      [] OTHER -> data

----------------------------------------------------------------------------
(* The inputs: the files of the yml directory *)

S(symbol) == Str(<<symbol>>)

RECURSIVE Newlines(_)
Newlines(n) == IF n = 0 THEN <<>> ELSE <<NL>> \o Newlines(n - 1)

\* a document with the sixteen fields of DocumentType, in the order the
\* section list assumes; "type" is the key the metadata view reads
StandardEntries ==
    << Entry(S("type"), S("SOP")),
       Entry(S("document_no"), S("001")),
       Entry(S("effective_date"), S("2024-01-01")),
       Entry(S("document_rev"), Int),
       Entry(S("title"), Str(<<"Access Control", NL>>)),
       Entry(S("document_code"), S("AC-1")),
       Entry(S("revision_history"),
             List(<<Dict(<<Entry(S("revision"), Int),
                           Entry(S("description"), Str(<<"initial", NL>>))>>)>>)),
       Entry(S("prepared_by"),
             List(<<Dict(<<Entry(S("name"), S("A")), Entry(S("date"), None)>>)>>)),
       Entry(S("reviewed_approved_by"), List(<<>>)),
       Entry(S("purpose"), List(<<Str(<<"control access", NL>>)>>)),
       Entry(S("scope"), List(<<S("all")>>)),
       Entry(S("responsibility"), List(<<S("owner")>>)),
       Entry(S("definition"), List(<<S("term")>>)),
       Entry(S("reference"), List(<<S("ref")>>)),
       Entry(S("attachment"), List(<<S("form")>>)),
       Entry(S("procedure"),
             List(<<Dict(<<Entry(S("title"), S("5.1")),
                           Entry(S("content"),
                                 List(<<Str(<<"step", NL, NL>>)>>))>>)>>)) >>

\* the document made of the first n standard fields
PrefixDoc(n) == Dict(SubSeq(StandardEntries, 1, Min(n, Len(StandardEntries))))

\* a document that has the six metadata fields and sections of its own
\* named like the service's fixed routes
ReservedKeysDoc ==
    Dict(SubSeq(StandardEntries, 1, 6)
         \o << Entry(S("metadata"), S("own metadata")),
               Entry(S("sections"), List(<<S("own sections")>>)),
               Entry(S("document_control"), S("own control")),
               Entry(S("purpose"), List(<<S("p")>>)) >>)

\* a document whose strings, keys included, end with n newlines
NewlineDoc(n) ==
    Dict(<< Entry(Str(<<"purpose">> \o Newlines(n)),
                  List(<< Str(<<"a", NL, "b">> \o Newlines(n)),
                          Str(Newlines(n)),
                          Int,
                          List(<<Str(<<"deep">> \o Newlines(n))>>) >>)),
            Entry(S("purpose"), Str(<<"x">> \o Newlines(n))),
            Entry(Int, Dict(<<Entry(Str(<<"k">> \o Newlines(n)),
                                    Str(<<"v">> \o Newlines(n)))>>)),
            Entry(S("title"), Str(<<NL, "t">>)) >>)

WellFormed(value) == [wellformed |-> TRUE, parsed |-> value]

\* a file that the YAML parser rejects
Malformed == [wellformed |-> FALSE, parsed |-> None]

\* an empty file: the YAML parser returns None for it
EmptyFile == WellFormed(None)

Path(parts) == [dir |-> "yml", parts |-> parts]

FileNames ==
    { <<"policy_a", "yml">>, <<"policy_a", "v2", "yml">>, <<"documents", "yml">> }

ContentsOf(parts) ==
    IF parts = <<"policy_a", "yml">>
    THEN {Malformed, EmptyFile, WellFormed(ReservedKeysDoc)}
         \cup {WellFormed(PrefixDoc(n)) : n \in 0..MaxKeys}
         \cup {WellFormed(NewlineDoc(n)) : n \in 1..MaxNewlines}
    ELSE IF parts = <<"policy_a", "v2", "yml">>
    THEN {Malformed, EmptyFile, WellFormed(PrefixDoc(3))}
    ELSE {Malformed, WellFormed(PrefixDoc(Len(StandardEntries)))}

AllContents == UNION {ContentsOf(parts) : parts \in FileNames}

\* glob.glob("yml/*.yml"): the files of the directory, in any order
Listings ==
    { l \in UNION {[1..n -> FileNames] : n \in 0..Cardinality(FileNames)} :
        \A i, j \in 1..Len(l) : i # j => l[i] # l[j] }

Directories ==
    UNION { { [i \in 1..Len(l) |-> [path |-> Path(l[i]), data |-> c[i]]] :
                c \in { c \in [1..Len(l) -> AllContents] :
                          \A i \in 1..Len(l) : c[i] \in ContentsOf(l[i]) } } :
            l \in Listings }

\* Directories of many small files, for the load phase: file number `bad`,
\* if any, is malformed and the others hold a one-field document.
LoadNames == <<"a", "b", "c", "d", "e", "f", "g", "h", "i">>

LoadDirectory(n, bad) ==
    [i \in 1..n |->
        [path |-> Path(<<LoadNames[i], "yml">>),
         data |-> IF i = bad THEN Malformed ELSE WellFormed(PrefixDoc(1))]]

LoadDirectories ==
    { LoadDirectory(n, bad) :
        n \in 0..Min(MaxLoadFiles, Len(LoadNames)), bad \in 0..MaxLoadFiles }

----------------------------------------------------------------------------
(* The load phase *)

\* a buggy pool that starts a thread for every submitted task
max_workers_unbounded == Len(files) + 1

\* ThreadPoolExecutor(max_workers=5)
max_workers == 5

\* yaml.safe_load: the parsed content, or a YAMLError
yaml_safe_load(data) == [raised |-> ~data.wellformed, value |-> data.parsed]

\* endpoint.py read_yaml_file: a parse error propagates to the caller
read_yaml_file(file) ==
    LET y == yaml_safe_load(file.data)
    IN  IF y.raised THEN [raised |-> TRUE, value |-> None]
        ELSE [raised |-> FALSE, value |-> transform_data(y.value)]

\* documentHandler.read_yaml_file, imported by routes/user_document.py: a
\* file that cannot be parsed is skipped, which the caller sees as None
documentHandler_read_yaml_file(file) ==
    LET y == yaml_safe_load(file.data)
    IN  IF y.raised THEN [raised |-> FALSE, value |-> None]
        ELSE [raised |-> FALSE, value |-> transform_data(y.value)]

\* os.path.basename(input_file).split(".")[0]
document_name_of(path) == path.parts[1]

Pending == [kind |-> "pending", name |-> "", content |-> None]

\* load_document of endpoint.py: (name, content), or the parser's exception
endpoint_load_document(file) ==
    LET r == read_yaml_file(file)
    IN  IF r.raised THEN [kind |-> "raised", name |-> "", content |-> None]
        ELSE [kind |-> "pair", name |-> document_name_of(file.path),
              content |-> r.value]

\* load_document of routes/user_document.py: None for a content of None
router_load_document(file) ==
    LET r == documentHandler_read_yaml_file(file)
    IN  IF r.raised THEN [kind |-> "raised", name |-> "", content |-> None]
        ELSE IF r.value = None
        THEN [kind |-> "none", name |-> "", content |-> None]
        ELSE [kind |-> "pair", name |-> document_name_of(file.path),
              content |-> r.value]

load_document(v, file) ==
    IF v = "endpoint" THEN endpoint_load_document(file)
    ELSE router_load_document(file)

Running == {i \in 1..Len(files) : task[i] = "running"}

\* a worker thread takes the next submitted task off the executor's queue
StartTask(i) ==
    /\ pc = "loading"
    /\ task[i] = "queued"
    /\ \A j \in 1..(i - 1) : task[j] # "queued"
    /\ Cardinality(Running) < max_workers
    /\ task' = [task EXCEPT ![i] = "running"]
    /\ UNCHANGED <<variant, files, result, nextResult, loaded_documents, pc, response>>

\* the worker finishes load_document and stores the future's outcome
FinishTask(i) ==
    /\ task[i] = "running"
    /\ task' = [task EXCEPT ![i] = "done"]
    /\ result' = [result EXCEPT ![i] = load_document(variant, files[i])]
    /\ UNCHANGED <<variant, files, nextResult, loaded_documents, pc, response>>

\* one iteration of `for ... in results`: the main thread takes the next
\* result in submission order; an exception of the task is raised here
Aggregate ==
    /\ pc = "loading"
    /\ nextResult <= Len(files)
    /\ task[nextResult] = "done"
    /\ LET r == result[nextResult]
       IN  IF r.kind = "raised"
           THEN /\ pc' = "crashed"
                /\ UNCHANGED <<nextResult, loaded_documents>>
           ELSE /\ pc' = pc
                /\ nextResult' = nextResult + 1
                /\ loaded_documents' =
                      IF r.kind = "pair"
                      THEN DictSet(loaded_documents, r.name, r.content)
                      ELSE loaded_documents
    /\ UNCHANGED <<variant, files, task, result, response>>

\* a buggy readiness that does not wait for the results
LoadCompleteEarly == nextResult >= 1

\* the results are exhausted, the with block ends and the import of the
\* module completes: only now can the application be served
LoadComplete == nextResult > Len(files)

LoadDone ==
    /\ pc = "loading"
    /\ LoadComplete
    /\ pc' = "serving"
    /\ UNCHANGED <<variant, files, task, result, nextResult, loaded_documents, response>>

----------------------------------------------------------------------------
(* The serve phase: what a handler produces *)

\* a handler's return value, sent as 200 with the value as its body
Ok(value) == [status |-> 200, detail |-> <<>>, body |-> value, fault |-> ""]

\* raise HTTPException(status_code=status, detail=detail)
HTTPException(status, detail) ==
    [status |-> status, detail |-> detail, body |-> None, fault |-> ""]

\* an exception other than HTTPException leaves the handler uncaught: the
\* server answers 500 Internal Server Error
Uncaught(exception) ==
    [status |-> 500, detail |-> <<>>, body |-> None, fault |-> exception]

\* RedirectResponse(url=url)
RedirectResponse(url) ==
    [status |-> 307, detail |-> <<>>, body |-> S(url), fault |-> ""]

\* a buggy lookup that answers None for a missing document (dict.get)
check_document_loaded_get(document_name, docs) ==
    IF DictHas(docs, document_name)
    THEN [raised |-> FALSE, value |-> DictGet(docs, document_name),
          exc |-> Ok(None)]
    ELSE [raised |-> FALSE, value |-> None, exc |-> Ok(None)]

\* check_document_loaded: the loaded content, or HTTPException 404
check_document_loaded(document_name, docs) ==
    IF DictHas(docs, document_name)
    THEN [raised |-> FALSE, value |-> DictGet(docs, document_name),
          exc |-> Ok(None)]
    ELSE [raised |-> TRUE, value |-> None,
          exc |-> HTTPException(404,
                    <<"Document ", document_name, ".yml not found">>)]

\* a buggy insert that raises the position by one
ListInsertAfter(elements, index, x) ==
    LET at == Min(index + 1, Len(elements))
    IN  SubSeq(elements, 1, at) \o <<x>> \o SubSeq(elements, at + 1, Len(elements))

\* list.insert(index, x) for index >= 0: x goes before the element at the
\* 0-based position index, or to the end when the list is shorter
ListInsert(elements, index, x) ==
    LET at == Min(index, Len(elements))
    IN  SubSeq(elements, 1, at) \o <<x>> \o SubSeq(elements, at + 1, Len(elements))

\* content[key] with a str key: KeyError when a dict lacks it, TypeError
\* when content is None
Subscript(content, key) ==
    IF content.tag # "dict"
    THEN [raised |-> TRUE, exc |-> Uncaught("TypeError"), value |-> None]
    ELSE IF ~DictHas(content.items, S(key))
    THEN [raised |-> TRUE, exc |-> Uncaught("KeyError"), value |-> None]
    ELSE [raised |-> FALSE, exc |-> Ok(None),
          value |-> DictGet(content.items, S(key))]

\* a dict display {name: content[key], ...}: the entries are evaluated in
\* order and the first failing subscript raises
RECURSIVE Project(_, _, _)
Project(content, fields, acc) ==
    IF fields = <<>> THEN Ok(Dict(acc))
    ELSE LET f == Head(fields)
             x == Subscript(content, f.key)
         IN  IF x.raised THEN x.exc
             ELSE Project(content, Tail(fields),
                          DictSet(acc, S(f.name), x.value))

Field(name, key) == [name |-> name, key |-> key]

MetadataFields ==
    << Field("document_type", "type"),
       Field("document_no", "document_no"),
       Field("effective_date", "effective_date"),
       Field("document_rev", "document_rev"),
       Field("title", "title"),
       Field("document_code", "document_code") >>

DocumentControlFields ==
    << Field("revision_history", "revision_history"),
       Field("prepared_by", "prepared_by"),
       Field("reviewed_approved_by", "reviewed_approved_by") >>

\* A handler yields its outcome and the loaded documents as it leaves them.
Handled(outcome, docs) == [out |-> outcome, docs |-> docs]

get_api_info(docs) == Handled(RedirectResponse("/redoc"), docs)

get_document_list(docs) ==
    Handled(Ok(List([i \in 1..Len(docs) |-> S(docs[i].k)])), docs)

get_document_content(document, docs) ==
    LET c == check_document_loaded(document, docs)
    IN  IF c.raised THEN Handled(c.exc, docs)
        ELSE Handled(Ok(c.value), docs)

\* a buggy section list that stores the two names in the document itself
get_document_content_sections_inplace(document, docs) ==
    LET c == check_document_loaded(document, docs)
    IN  IF c.raised THEN Handled(c.exc, docs)
        ELSE IF c.value.tag # "dict"
        THEN Handled(Uncaught("AttributeError"), docs)
        ELSE LET grown == DictSet(DictSet(c.value.items, S("metadata"), None),
                                  S("document_control"), None)
             IN  Handled(Ok(List(DictKeys(grown))),
                         DictSet(docs, document, Dict(grown)))

get_document_content_sections(document, docs) ==
    LET c == check_document_loaded(document, docs)
    IN  IF c.raised THEN Handled(c.exc, docs)
        ELSE IF c.value.tag # "dict"
        THEN Handled(Uncaught("AttributeError"), docs)
        ELSE LET sections == DictKeys(c.value.items)
                 first == ListInsert(sections, 6, S("metadata"))
                 second == ListInsert(first, 10, S("document_control"))
             IN  Handled(Ok(List(second)), docs)

\* a buggy metadata view that reads the key "document_type"
get_document_content_metadata_typed(document, docs) ==
    LET c == check_document_loaded(document, docs)
    IN  IF c.raised THEN Handled(c.exc, docs)
        ELSE Handled(Project(c.value,
                <<Field("document_type", "document_type")>>
                \o Tail(MetadataFields), <<>>), docs)

get_document_content_metadata(document, docs) ==
    LET c == check_document_loaded(document, docs)
    IN  IF c.raised THEN Handled(c.exc, docs)
        ELSE Handled(Project(c.value, MetadataFields, <<>>), docs)

get_document_document_control(document, docs) ==
    LET c == check_document_loaded(document, docs)
    IN  IF c.raised THEN Handled(c.exc, docs)
        ELSE Handled(Project(c.value, DocumentControlFields, <<>>), docs)

\* a buggy section lookup that answers the whole document
get_document_content_section_whole(document, section, docs) ==
    LET c == check_document_loaded(document, docs)
    IN  IF c.raised THEN Handled(c.exc, docs)
        ELSE Handled(Ok(c.value), docs)

\* a buggy section lookup that reports a missing section as a missing
\* document
get_document_content_section_as_document(document, section, docs) ==
    LET c == check_document_loaded(document, docs)
    IN  IF c.raised THEN Handled(c.exc, docs)
        ELSE IF c.value.tag # "dict"
        THEN Handled(Uncaught("TypeError"), docs)
        ELSE IF ~DictHas(c.value.items, S(section))
        THEN Handled(HTTPException(404,
                <<"Document ", document, ".yml not found">>), docs)
        ELSE Handled(Ok(DictGet(c.value.items, S(section))), docs)

\* `section not in content` raises TypeError when content is None
get_document_content_section(document, section, docs) ==
    LET c == check_document_loaded(document, docs)
    IN  IF c.raised THEN Handled(c.exc, docs)
        ELSE IF c.value.tag # "dict"
        THEN Handled(Uncaught("TypeError"), docs)
        ELSE IF ~DictHas(c.value.items, S(section))
        THEN Handled(HTTPException(404,
                <<"Section '", section, "' doesn't exist in ", document, ".yml">>),
                docs)
        ELSE Handled(Ok(DictGet(c.value.items, S(section))), docs)

----------------------------------------------------------------------------
(* The serve phase: requests and routes *)

\* A request is GET <prefix>/<path>, its path given as its segments.
DocumentArgs == {"policy_a", "documents", "unknown_doc"}

SectionArgs ==
    {"purpose", "type", "metadata", "sections", "document_control", "nosuch"}

Requests ==
    {<<>>} \cup {<<d>> : d \in DocumentArgs}
           \cup {<<d, s>> : d \in DocumentArgs, s \in SectionArgs}

\* The handler a path is dispatched to: the first registered route that
\* matches it. endpoint.py registers /v1 and /v1/documents first; the
\* router registers / first. Both register /{document}/{section} last.
Route(v, path) ==
    CASE path = <<>> ->
            IF v = "endpoint" THEN "get_api_info" ELSE "get_document_list"
      [] Len(path) = 1 ->
            IF v = "endpoint" /\ path[1] = "documents"
            THEN "get_document_list" ELSE "get_document_content"
      [] Len(path) = 2 ->
            IF path[2] = "sections" THEN "get_document_content_sections"
            ELSE IF path[2] = "metadata" THEN "get_document_content_metadata"
            ELSE IF path[2] = "document_control"
            THEN "get_document_document_control"
            ELSE "get_document_content_section"
      [] OTHER -> "not_routed"

NoResponse ==
    [handler |-> "", path |-> <<>>, status |-> 0, detail |-> <<>>,
     body |-> None, fault |-> ""]

\* the response goes out and the handler's effect on the documents stays
Respond(handler, path, h) ==
    /\ response' = [handler |-> handler, path |-> path,
                    status |-> h.out.status, detail |-> h.out.detail,
                    body |-> h.out.body, fault |-> h.out.fault]
    /\ loaded_documents' = h.docs
    /\ UNCHANGED <<variant, files, task, result, nextResult, pc>>

GetApiInfo ==
    /\ pc = "serving"
    /\ \E path \in Requests :
        /\ Route(variant, path) = "get_api_info"
        /\ Respond("get_api_info", path, get_api_info(loaded_documents))

GetDocumentList ==
    /\ pc = "serving"
    /\ \E path \in Requests :
        /\ Route(variant, path) = "get_document_list"
        /\ Respond("get_document_list", path,
                   get_document_list(loaded_documents))

GetDocumentContent ==
    /\ pc = "serving"
    /\ \E path \in Requests :
        /\ Route(variant, path) = "get_document_content"
        /\ Respond("get_document_content", path,
                   get_document_content(path[1], loaded_documents))

GetDocumentContentSections ==
    /\ pc = "serving"
    /\ \E path \in Requests :
        /\ Route(variant, path) = "get_document_content_sections"
        /\ Respond("get_document_content_sections", path,
                   get_document_content_sections(path[1], loaded_documents))

GetDocumentContentMetadata ==
    /\ pc = "serving"
    /\ \E path \in Requests :
        /\ Route(variant, path) = "get_document_content_metadata"
        /\ Respond("get_document_content_metadata", path,
                   get_document_content_metadata(path[1], loaded_documents))

GetDocumentDocumentControl ==
    /\ pc = "serving"
    /\ \E path \in Requests :
        /\ Route(variant, path) = "get_document_document_control"
        /\ Respond("get_document_document_control", path,
                   get_document_document_control(path[1], loaded_documents))

GetDocumentContentSection ==
    /\ pc = "serving"
    /\ \E path \in Requests :
        /\ Route(variant, path) = "get_document_content_section"
        /\ Respond("get_document_content_section", path,
                   get_document_content_section(path[1], path[2],
                                                loaded_documents))

----------------------------------------------------------------------------
(* The specification *)

Init ==
    /\ variant \in {"endpoint", "router"}
    /\ files \in Directories
    /\ task = [i \in 1..Len(files) |-> "queued"]
    /\ result = [i \in 1..Len(files) |-> Pending]
    /\ nextResult = 1
    /\ loaded_documents = <<>>
    /\ pc = "loading"
    /\ response = NoResponse

Next ==
    \/ \E i \in 1..Len(files) : StartTask(i)
    \/ \E i \in 1..Len(files) : FinishTask(i)
    \/ Aggregate
    \/ LoadDone
    \/ GetApiInfo
    \/ GetDocumentList
    \/ GetDocumentContent
    \/ GetDocumentContentSections
    \/ GetDocumentContentMetadata
    \/ GetDocumentDocumentControl
    \/ GetDocumentContentSection

Spec == Init /\ [][Next]_vars

\* the same program on the directories of many files
InitLoad ==
    /\ variant \in {"endpoint", "router"}
    /\ files \in LoadDirectories
    /\ task = [i \in 1..Len(files) |-> "queued"]
    /\ result = [i \in 1..Len(files) |-> Pending]
    /\ nextResult = 1
    /\ loaded_documents = <<>>
    /\ pc = "loading"
    /\ response = NoResponse

SpecLoad == InitLoad /\ [][Next]_vars

----------------------------------------------------------------------------
(* Vocabulary of the properties *)

\* the five queries that take a document name
DocumentHandlers ==
    {"get_document_content", "get_document_content_sections",
     "get_document_content_metadata", "get_document_document_control",
     "get_document_content_section"}

\* d is a key of the store
Loaded(d) == \E i \in 1..Len(loaded_documents) : loaded_documents[i].k = d

\* the content stored under d
Stored(d) ==
    loaded_documents[CHOOSE i \in 1..Len(loaded_documents) :
                        loaded_documents[i].k = d].v

\* d is in the store and is a document, that is a mapping
LoadedDocument(d) == Loaded(d) /\ Stored(d).tag = "dict"

\* s is a top-level key of the mapping doc
HasKey(doc, s) == \E i \in 1..Len(doc.items) : doc.items[i].k = S(s)

\* the response answers a request for a document, by one of the handlers
Answers(handlers) == response.handler \in handlers

Elements(seq) == {seq[i] : i \in 1..Len(seq)}

NotFoundDetail(d) == <<"Document ", d, ".yml not found">>

----------------------------------------------------------------------------
(* C1 *)

\* C1: a query of any of the five document handlers for a name that is not
\* a key of the store ends in HTTP 404 whose detail names the missing
\* document, never in a successful result.
C1_NotFound ==
    (Answers(DocumentHandlers) /\ ~Loaded(response.path[1]))
        => /\ response.status = 404
           /\ response.fault = ""
           /\ response.detail = NotFoundDetail(response.path[1])
           /\ response.path[1] \in Elements(response.detail)

C1_Witness ==
    /\ response.handler = "get_document_content_section"
    /\ loaded_documents # <<>>
    /\ ~Loaded(response.path[1])
    /\ response.status = 404

----------------------------------------------------------------------------
(* C2 *)

\* the section names that an earlier route takes before /{document}/{section}
ReservedSections == {"sections", "metadata", "document_control"}

\* the response is the value stored under key s of document d
IsSectionValue(d, s) ==
    /\ response.status = 200
    /\ \E i \in 1..Len(Stored(d).items) :
          /\ Stored(d).items[i].k = S(s)
          /\ response.body = Stored(d).items[i].v

\* C2 as stated: for every top-level key s of a stored document d, whatever
\* its name, the request GET /{d}/{s} is answered with d[s].
C2_Original ==
    (/\ Len(response.path) = 2
     /\ LoadedDocument(response.path[1])
     /\ HasKey(Stored(response.path[1]), response.path[2]))
        => IsSectionValue(response.path[1], response.path[2])

\* C2 amended: for every top-level key s of a stored document d other than
\* "sections", "metadata" and "document_control", the request GET /{d}/{s}
\* is answered with d[s].
C2_SectionValue ==
    (/\ Len(response.path) = 2
     /\ LoadedDocument(response.path[1])
     /\ HasKey(Stored(response.path[1]), response.path[2])
     /\ response.path[2] \notin ReservedSections)
        => /\ response.handler = "get_document_content_section"
           /\ IsSectionValue(response.path[1], response.path[2])

C2_Witness ==
    /\ response.handler = "get_document_content_section"
    /\ response.path = <<"policy_a", "purpose">>
    /\ LoadedDocument("policy_a")
    /\ HasKey(Stored("policy_a"), "purpose")
    /\ response.status = 200

----------------------------------------------------------------------------
(* C3 *)

\* C3: the section query for a stored document d and a name s that is not a
\* top-level key of d ends in HTTP 404 whose detail names both s and d and
\* differs from the detail of the absent-document outcome.
C3_SectionNotFound ==
    (/\ Answers({"get_document_content_section"})
     /\ LoadedDocument(response.path[1])
     /\ ~HasKey(Stored(response.path[1]), response.path[2]))
        => /\ response.status = 404
           /\ response.fault = ""
           /\ response.path[1] \in Elements(response.detail)
           /\ response.path[2] \in Elements(response.detail)
           /\ response.detail # NotFoundDetail(response.path[1])
           /\ response.detail =
                 <<"Section '", response.path[2], "' doesn't exist in ",
                   response.path[1], ".yml">>

C3_Witness ==
    /\ response.handler = "get_document_content_section"
    /\ response.path[2] = "nosuch"
    /\ LoadedDocument(response.path[1])
    /\ Len(Stored(response.path[1]).items) > 0
    /\ response.status = 404

----------------------------------------------------------------------------
(* C4 *)

\* the element at the 0-based position index
At(seq, index) == seq[index + 1]

\* seq without the element at the 0-based position index
Without(seq, index) ==
    SubSeq(seq, 1, index) \o SubSeq(seq, index + 2, Len(seq))

TopLevelKeys(doc) == [i \in 1..Len(doc.items) |-> doc.items[i].k]

\* C4 as stated: for every stored document, whatever its number of keys,
\* the section list has "metadata" at index 6 and "document_control" at
\* index 10, two more elements than the document has keys, and is the
\* document's keys in order once the two are removed.
C4_Original ==
    (/\ Answers({"get_document_content_sections"})
     /\ LoadedDocument(response.path[1]))
        => LET keys == TopLevelKeys(Stored(response.path[1]))
               got == response.body.items
           IN  /\ response.status = 200
               /\ Len(got) = Len(keys) + 2
               /\ Len(got) > 10
               /\ At(got, 6) = S("metadata")
               /\ At(got, 10) = S("document_control")
               /\ Without(Without(got, 10), 6) = keys

\* C4 amended: for a stored document with n keys the section list has n + 2
\* elements, "metadata" at index min(6, n) and "document_control" at index
\* min(10, n + 1), and is the document's keys in order once the two are
\* removed; the two are at indices 6 and 10 exactly when n >= 9.
C4_Sections ==
    (/\ Answers({"get_document_content_sections"})
     /\ LoadedDocument(response.path[1]))
        => LET keys == TopLevelKeys(Stored(response.path[1]))
               n == Len(keys)
               got == response.body.items
               m == IF n < 6 THEN n ELSE 6
               c == IF n + 1 < 10 THEN n + 1 ELSE 10
           IN  /\ response.status = 200
               /\ response.body.tag = "list"
               /\ Len(got) = n + 2
               /\ At(got, m) = S("metadata")
               /\ At(got, c) = S("document_control")
               /\ Without(Without(got, c), m) = keys
               /\ (n >= 9) <=> (m = 6 /\ c = 10)

C4_Witness ==
    /\ response.handler = "get_document_content_sections"
    /\ LoadedDocument(response.path[1])
    /\ Len(Stored(response.path[1]).items) = 7
    /\ response.status = 200
    /\ At(response.body.items, 6) = S("metadata")
    /\ At(response.body.items, 8) = S("document_control")

----------------------------------------------------------------------------
(* C5 *)

\* the response is exactly the mapping that gives each name of `view` the
\* value the document d stores under the paired key
IsProjection(d, view) ==
    /\ response.status = 200
    /\ response.body.tag = "dict"
    /\ Len(response.body.items) = Cardinality(view)
    /\ Elements(response.body.items) =
          { Entry(S(f[1]),
                  Stored(d).items[CHOOSE i \in 1..Len(Stored(d).items) :
                                     Stored(d).items[i].k = S(f[2])].v) :
            f \in view }

MetadataView ==
    { <<"document_type", "type">>, <<"document_no", "document_no">>,
      <<"effective_date", "effective_date">>, <<"document_rev", "document_rev">>,
      <<"title", "title">>, <<"document_code", "document_code">> }

DocumentControlView ==
    { <<"revision_history", "revision_history">>, <<"prepared_by", "prepared_by">>,
      <<"reviewed_approved_by", "reviewed_approved_by">> }

HasSources(d, view) == \A f \in view : HasKey(Stored(d), f[2])

\* C5: for a stored document that has the six source fields the metadata
\* query returns exactly the six-key mapping of them (document_type taken
\* from "type"), and for a stored document that has the three source fields
\* the document-control query returns exactly the three-key mapping of them.
C5_Projections ==
    /\ (/\ Answers({"get_document_content_metadata"})
        /\ LoadedDocument(response.path[1])
        /\ HasSources(response.path[1], MetadataView))
          => IsProjection(response.path[1], MetadataView)
    /\ (/\ Answers({"get_document_document_control"})
        /\ LoadedDocument(response.path[1])
        /\ HasSources(response.path[1], DocumentControlView))
          => IsProjection(response.path[1], DocumentControlView)

C5_Witness ==
    /\ response.handler = "get_document_content_metadata"
    /\ LoadedDocument(response.path[1])
    /\ HasSources(response.path[1], MetadataView)
    /\ ~HasSources(response.path[1], DocumentControlView)
    /\ response.status = 200
    /\ Len(response.body.items) = 6

----------------------------------------------------------------------------
(* C6 *)

\* the statuses that are a successful response, a redirect or a not-found
ExpectedStatuses == {200, 307, 404}

\* C6 as stated: every query on a store of documents ends in a successful
\* response or in a 404 and never in an uncaught fault; in particular the
\* metadata query on a stored document that lacks a source field is a 404.
C6_Original ==
    (/\ response # NoResponse
     /\ Answers(DocumentHandlers) =>
           (Loaded(response.path[1]) => LoadedDocument(response.path[1])))
        => /\ response.status \in ExpectedStatuses
           /\ response.fault = ""

----------------------------------------------------------------------------
(* C7 *)

DerivedName(i) == files[i].path.parts[1]

\* C7 as stated: no exception escapes the load phase, and once the load is
\* over every well-formed document is in the store and every entry of the
\* store comes from a well-formed file.
C7_Original ==
    /\ pc # "crashed"
    /\ pc = "serving" =>
          /\ \A i \in 1..Len(files) :
                (files[i].data.wellformed /\ files[i].data.parsed.tag = "dict")
                    => Loaded(DerivedName(i))
          /\ \A j \in 1..Len(loaded_documents) :
                \E i \in 1..Len(files) :
                    /\ files[i].data.wellformed
                    /\ DerivedName(i) = loaded_documents[j].k

----------------------------------------------------------------------------
(* C8 *)

\* out is raw without its trailing newlines
IsRstrip(raw, out) ==
    \E n \in 0..Len(raw) :
        /\ out = SubSeq(raw, 1, n)
        /\ \A j \in (n + 1)..Len(raw) : raw[j] = NL
        /\ n = 0 \/ raw[n] # NL

\* out is raw with nothing changed but the trailing newlines of its string
\* leaves: same containers, same keys, same order, same lengths
RECURSIVE LeavesStripped(_, _)
LeavesStripped(raw, out) ==
    /\ raw.tag = out.tag
    /\ CASE raw.tag = "str" -> IsRstrip(raw.s, out.s)
         [] raw.tag = "list" ->
              /\ Len(out.items) = Len(raw.items)
              /\ \A i \in 1..Len(raw.items) :
                    LeavesStripped(raw.items[i], out.items[i])
         [] raw.tag = "dict" ->
              /\ Len(out.items) = Len(raw.items)
              /\ \A i \in 1..Len(raw.items) :
                    /\ out.items[i].k = raw.items[i].k
                    /\ LeavesStripped(raw.items[i].v, out.items[i].v)
         [] OTHER -> out = raw

SetMax(set) == CHOOSE x \in set : \A y \in set : y <= x

SetMin(set) == CHOOSE x \in set : \A y \in set : x <= y

\* out is raw with the trailing newlines of every string removed, mapping
\* keys included; entries whose keys become equal are one entry, at the
\* place of the first of them and with the value of the last
RECURSIVE Stripped(_, _)
Stripped(raw, out) ==
    /\ raw.tag = out.tag
    /\ CASE raw.tag = "str" -> IsRstrip(raw.s, out.s)
         [] raw.tag = "list" ->
              /\ Len(out.items) = Len(raw.items)
              /\ \A i \in 1..Len(raw.items) :
                    Stripped(raw.items[i], out.items[i])
         [] raw.tag = "dict" ->
              LET r == raw.items
                  o == out.items
                  From(j) == {i \in 1..Len(r) : Stripped(r[i].k, o[j].k)}
              IN  /\ \A i \in 1..Len(r) : \E j \in 1..Len(o) : i \in From(j)
                  /\ \A j \in 1..Len(o) :
                        /\ From(j) # {}
                        /\ Stripped(r[SetMax(From(j))].v, o[j].v)
                  /\ \A j1, j2 \in 1..Len(o) :
                        j1 < j2 => /\ o[j1].k # o[j2].k
                                   /\ SetMin(From(j1)) < SetMin(From(j2))
         [] OTHER -> out = raw

\* no string of the value, at any depth, ends with a newline
RECURSIVE NoTrailingNewline(_)
NoTrailingNewline(value) ==
    CASE value.tag = "str" -> value.s = <<>> \/ value.s[Len(value.s)] # NL
      [] value.tag = "list" ->
            \A i \in 1..Len(value.items) : NoTrailingNewline(value.items[i])
      [] value.tag = "dict" ->
            \A i \in 1..Len(value.items) :
                /\ NoTrailingNewline(value.items[i].k)
                /\ NoTrailingNewline(value.items[i].v)
      [] OTHER -> TRUE

\* C8 as stated: GetDocument(d) is the content deserialized from d's file
\* changed only in that every string leaf has lost its trailing newlines;
\* keys, order and lengths of the containers are unchanged.
C8_Original ==
    (Answers({"get_document_content"}) /\ Loaded(response.path[1]))
        => /\ response.status = 200
           /\ \E i \in 1..Len(files) :
                 /\ DerivedName(i) = response.path[1]
                 /\ files[i].data.wellformed
                 /\ LeavesStripped(files[i].data.parsed, response.body)

\* C8 amended: GetDocument(d) is the content deserialized from d's file with
\* the trailing newlines of every string removed, string leaves and string
\* mapping keys alike, at any depth; no string of it ends with a newline;
\* non-string values, the order and the lengths of sequences are unchanged,
\* and mapping entries are unchanged but for their stripped keys, entries
\* whose keys become equal being merged (first position, last value).
C8_Stripped ==
    (Answers({"get_document_content"}) /\ Loaded(response.path[1]))
        => /\ response.status = 200
           /\ NoTrailingNewline(response.body)
           /\ response.body = Stored(response.path[1])
           /\ \E i \in 1..Len(files) :
                 /\ DerivedName(i) = response.path[1]
                 /\ files[i].data.wellformed
                 /\ Stripped(files[i].data.parsed, response.body)

C8_Witness ==
    /\ response.handler = "get_document_content"
    /\ response.status = 200
    /\ response.body.tag = "dict"
    /\ \E i \in 1..Len(files) :
          /\ DerivedName(i) = response.path[1]
          /\ files[i].data.wellformed
          /\ files[i].data.parsed.tag = "dict"
          /\ Stripped(files[i].data.parsed, response.body)
          /\ Len(files[i].data.parsed.items) > Len(response.body.items)
          /\ ~NoTrailingNewline(files[i].data.parsed)

----------------------------------------------------------------------------
(* C9 *)

\* C9: once the load phase is over no step changes the store: the names and
\* the content of every document are the same before and after each query.
C9_StoreFrozen == [][pc = "serving" => loaded_documents' = loaded_documents]_vars

C9_Witness ==
    /\ pc = "serving"
    /\ response.handler = "get_document_content_sections"
    /\ response.status = 200
    /\ Len(loaded_documents) = 2

----------------------------------------------------------------------------
(* C10 *)

\* C10: a query is answered only when the load phase has finished: every
\* file-load task is done, every result has been merged into the store, and
\* the store holds every document the load yields.
C10_LoadBeforeServe ==
    response # NoResponse
        => /\ pc = "serving"
           /\ nextResult = Len(files) + 1
           /\ \A i \in 1..Len(files) :
                 /\ task[i] = "done"
                 /\ result[i].kind = "pair" => Loaded(result[i].name)
                 /\ (files[i].data.wellformed /\ files[i].data.parsed.tag = "dict")
                       => Loaded(DerivedName(i))

C10_Witness ==
    /\ response # NoResponse
    /\ Len(files) = 3
    /\ Len(loaded_documents) = 2

----------------------------------------------------------------------------
(* C11 *)

Queued == {i \in 1..Len(files) : task[i] = "queued"}

\* the step is one iteration of the main thread's loop over the results: it
\* merges the result it was waiting for, which is done, and nothing else
MainThreadMerge ==
    /\ nextResult \in 1..Len(files)
    /\ task[nextResult] = "done"
    /\ result[nextResult].kind = "pair"
    /\ loaded_documents' =
          DictSet(loaded_documents, result[nextResult].name,
                  result[nextResult].content)
    /\ nextResult' = nextResult + 1
    /\ task' = task /\ result' = result

\* the step is a step of one worker: it changes the state and the result
\* of its own task only, and neither the store nor the loop position
WorkerStep ==
    /\ \E i \in 1..Len(files) :
          \A j \in 1..Len(files) :
              j # i => (task'[j] = task[j] /\ result'[j] = result[j])
    /\ loaded_documents' = loaded_documents
    /\ nextResult' = nextResult

\* C11 as stated (its barrier): no entry is written to the store while any
\* file-load task is still running.
C11_Original == loaded_documents # <<>> => Running = {}

\* C11 amended: at most 5 file-load tasks run at a time; a worker changes
\* only its own task's state and result; the store is written by the main
\* thread alone, one result at a time in submission order, each as soon as
\* its task is done (later tasks may still be running or queued); and every
\* task is done before the load phase ends and the first query is served.
C11_Load ==
    /\ [](Cardinality(Running) <= 5)
    /\ [](pc = "serving" => \A i \in 1..Len(files) : task[i] = "done")
    /\ [][loaded_documents' # loaded_documents => MainThreadMerge]_vars
    /\ [][(task' # task \/ result' # result) => WorkerStep]_vars

C11_Witness ==
    /\ Cardinality(Running) = 5
    /\ Queued # {}
    /\ Len(loaded_documents) = 1
    /\ nextResult = 2

=============================================================================
